---- MODULE Spec2Model ----
(***************************************************************************)
(* Model of backend/open_webui/utils/images/swarmui.py: the SwarmUI client *)
(* adapter.  One invocation of swarmui_generate_image (or of               *)
(* get_swarmui_session_id, list_swarmui_models, select_swarmui_model on    *)
(* its own) is a small state machine that advances at its network round    *)
(* trips; the remote service is the environment and may answer every       *)
(* request in any of the ways listed in SessionResponses, GenResponses,    *)
(* ListResponses and SelectResponses.                                      *)
(*                                                                         *)
(* Strings that the code inspects or concatenates (image paths, base_url,  *)
(* session ids) are sequences of characters.  Python values are tagged     *)
(* records, JSON objects / dicts are functions from keys to values.        *)
(***************************************************************************)
EXTENDS Integers, Sequences, FiniteSets, TLC

VARIABLES
    op,          \* op[c]      : the function call c invokes
    pc,          \* pc[c]      : where call c stands in its function
    req,         \* req[c]     : the arguments of call c
    headers,     \* headers[c] : local `headers`
    session_id,  \* session_id[c] : local `session_id`
    data,        \* data[c]    : local `data`, the JSON body of the generation POST
    result,      \* result[c]  : local `result`, the last parsed generation response
    ret,         \* ret[c]     : what the call returned (or that it raised)
    sent,        \* sent[c]    : the HTTP requests call c has issued, in order
    acqs,        \* acqs[c]    : the calls of get_swarmui_session_id made by c
    rcvd         \* rcvd[c]    : the responses delivered to c's generation POSTs
                 \*              (for list / select calls: to their one POST)

vars == <<op, pc, req, headers, session_id, data, result, ret, sent, acqs, rcvd>>

-----------------------------------------------------------------------------
(* Bounds *)

\* Longest image list a generation response carries.
MaxImages == 2

\* Most acquisitions logged per call. The code makes at most two; the log is
\* kept finite for variants of the code that would make more.
MaxRounds == 3

-----------------------------------------------------------------------------
(* Python values *)

None == [t |-> "none", s |-> <<>>, n |-> 0, items |-> <<>>]
PyStr(chars) == [t |-> "str", s |-> chars, n |-> 0, items |-> <<>>]
PyInt(i) == [t |-> "int", s |-> <<>>, n |-> i, items |-> <<>>]
PyList(xs) == [t |-> "list", s |-> <<>>, n |-> 0, items |-> xs]
PyBool(b) == [t |-> "bool", s |-> <<>>, n |-> IF b THEN 1 ELSE 0, items |-> <<>>]

\* Python truthiness (`if x:` / `not x`).
Truthy(v) ==
    CASE v.t = "none" -> FALSE
      [] v.t = "str" -> Len(v.s) > 0
      [] v.t = "int" -> v.n # 0
      [] v.t = "list" -> Len(v.items) > 0
      [] v.t = "bool" -> v.n # 0

\* str.startswith
StartsWith(s, prefix) ==
    /\ Len(s) >= Len(prefix)
    /\ SubSeq(s, 1, Len(prefix)) = prefix

EmptyDict == [k \in {} |-> None]

\* A parsed JSON body: a dict (d) or some other JSON value.
DictBody(d) == [t |-> "dict", d |-> d]
ListBody == [t |-> "list", d |-> EmptyDict]
NullBody == [t |-> "none", d |-> EmptyDict]
StrBody == [t |-> "str", d |-> EmptyDict]

-----------------------------------------------------------------------------
(* What the remote service (or the network) can answer *)

NetError(kind) == [net |-> kind, status |-> 0, json |-> FALSE, body |-> NullBody]
Http(status, body) == [net |-> "ok", status |-> status, json |-> TRUE, body |-> body]
Unparsable(status) == [net |-> "ok", status |-> status, json |-> FALSE, body |-> NullBody]

S1 == <<"s", "1">>
S2 == <<"s", "2">>

SessionResponses ==
    { NetError("ConnectionError"), NetError("ReadTimeout"),
      Http(401, DictBody("session_id" :> PyStr(S1))),
      Http(500, DictBody("session_id" :> PyStr(S1))),
      Unparsable(200),
      Http(200, ListBody),
      Http(200, NullBody),
      Http(200, DictBody(EmptyDict)),
      Http(200, DictBody("session_id" :> None)),
      Http(200, DictBody("session_id" :> PyStr(<<>>))),
      Http(200, DictBody("session_id" :> PyStr(S1))),
      Http(200, DictBody("session_id" :> PyStr(S2))),
      Http(300, DictBody("session_id" :> PyStr(S1))) }

InlinePath == <<"d", "a", "t", "a", ":", "x">>
HttpPath == <<"h", "t", "t", "p", ":", "/", "/", "h">>
HttpsPath == <<"h", "t", "t", "p", "s", ":", "/", "/", "h">>
HttpishPath == <<"h", "t", "t", "p", "x">>
RelPath == <<"o", "/", "1">>

ImageEntries ==
    { PyStr(InlinePath), PyStr(HttpPath), PyStr(HttpsPath), PyStr(HttpishPath),
      PyStr(RelPath), PyInt(7) }

ImageLists == UNION { [1..n -> ImageEntries] : n \in 0..MaxImages }

InvalidSession == PyStr(<<"invalid_session_id">>)
ExpiredBody == DictBody("error_id" :> InvalidSession)

GenBodies ==
    { ExpiredBody,
      DictBody(("error_id" :> InvalidSession) @@ ("images" :> PyList(<<PyStr(RelPath)>>))),
      DictBody("error_id" :> PyStr(<<"other">>)),
      DictBody("error_id" :> None),
      DictBody("error" :> PyStr(<<"e">>)),
      DictBody(EmptyDict),
      DictBody("images" :> None),
      DictBody("images" :> PyInt(7)),
      DictBody("images" :> PyStr(<<"a", "b">>)),
      ListBody, NullBody, StrBody }
    \cup { DictBody("images" :> PyList(xs)) : xs \in ImageLists }

GenResponses ==
    { NetError("ConnectionError"), NetError("ReadTimeout"),
      Http(401, ExpiredBody),
      Http(500, DictBody("images" :> PyList(<<PyStr(RelPath)>>))),
      Unparsable(200),
      Http(300, ExpiredBody),
      Http(300, DictBody("images" :> PyList(<<PyStr(RelPath)>>))) }
    \cup { Http(200, b) : b \in GenBodies }

\* Model descriptors are opaque to the client.
M1 == PyStr(<<"m1">>)
M2 == PyStr(<<"m2">>)

ListResponses ==
    { NetError("ConnectionError"), NetError("ReadTimeout"),
      Http(401, DictBody("files" :> PyList(<<M1>>))),
      Http(500, DictBody("files" :> PyList(<<M1>>))),
      Unparsable(200),
      Http(200, ListBody),
      Http(200, NullBody),
      Http(200, DictBody(EmptyDict)),
      Http(200, DictBody("files" :> None)),
      Http(200, DictBody("files" :> PyStr(<<"m1">>))),
      Http(200, DictBody("files" :> PyList(<<>>))),
      Http(200, DictBody("files" :> PyList(<<M1>>))),
      Http(200, DictBody("files" :> PyList(<<M1, M2>>))),
      Http(200, DictBody("files" :> PyList(<<M2, M1>>))),
      Http(300, DictBody("files" :> PyList(<<M1>>))) }

SelectResponses ==
    { NetError("ConnectionError"), NetError("ReadTimeout"),
      Http(401, DictBody("success" :> PyBool(TRUE))),
      Http(500, DictBody("success" :> PyBool(TRUE))),
      Unparsable(200),
      Http(200, ListBody),
      Http(200, NullBody),
      Http(200, DictBody(EmptyDict)),
      Http(200, DictBody("success" :> None)),
      Http(200, DictBody("success" :> PyStr(<<"yes">>))),
      Http(200, DictBody("success" :> PyBool(TRUE))),
      Http(200, DictBody("success" :> PyBool(FALSE))),
      Http(300, DictBody("success" :> PyBool(TRUE))) }

-----------------------------------------------------------------------------
(* The arguments of a call *)

BaseUrl == <<"h", "t", "t", "p", ":", "/", "/", "b">>

\* SwarmUIGenerateImageForm
Form(negative_prompt, n, steps, seed) ==
    [prompt |-> PyStr(<<"cat">>), negative_prompt |-> negative_prompt,
     width |-> PyInt(512), height |-> PyInt(512), n |-> PyInt(n),
     steps |-> steps, seed |-> seed]

Args(model, payload, api_key) ==
    [model |-> model, payload |-> payload, base_url |-> BaseUrl, api_key |-> api_key]

Requests ==
    { Args(None, Form(None, 1, None, None), PyStr(<<>>)),
      Args(PyStr(<<"m">>), Form(PyStr(<<"np">>), 1, PyInt(20), PyInt(7)), PyStr(<<"k">>)),
      Args(PyStr(<<>>), Form(PyStr(<<>>), 2, PyInt(20), PyInt(0)), PyStr(<<"k">>)),
      Args(PyStr(<<"m">>), Form(None, 2, None, PyInt(0)), PyStr(<<>>)) }

-----------------------------------------------------------------------------
(* HTTP requests *)

SessionTimeout == 20
GenerateTimeout == 120

Request(url, hdrs, json, timeout) ==
    [url |-> url, headers |-> hdrs, json |-> json, timeout |-> timeout]

\* headers = {"User-Agent": "Mozilla/5.0"}; if api_key: headers["Authorization"] = ...
Headers(api_key) ==
    IF Truthy(api_key)
    THEN ("User-Agent" :> <<"Mozilla/5.0">>)
         @@ ("Authorization" :> (<<"Bearer ">> \o api_key.s))
    ELSE ("User-Agent" :> <<"Mozilla/5.0">>)

SessionUrl(base_url) == base_url \o <<"/API/GetNewSession">>
GenerateUrl(base_url) == base_url \o <<"/API/GenerateText2Image">>

SessionRequest(base_url, api_key) ==
    Request(SessionUrl(base_url), Headers(api_key), EmptyDict, SessionTimeout)

GenerateRequest(base_url, hdrs, json) ==
    Request(GenerateUrl(base_url), hdrs, json, GenerateTimeout)

\* requests.post without a timeout argument.
NoTimeout == 0

\* headers = {"Authorization": f"Bearer {api_key}", "Content-Type": "application/json"}
JsonHeaders(api_key) ==
    ("Authorization" :> (<<"Bearer ">> \o api_key.s))
    @@ ("Content-Type" :> <<"application/json">>)

ListUrl(base_url) == base_url \o <<"/API/ListModels">>
SelectUrl(base_url) == base_url \o <<"/API/SelectModel">>

\* The body of the ListModels POST, with the defaults of the signature.
ListPayload ==
    ("path" :> PyStr(<<>>)) @@ ("depth" :> PyInt(1))
    @@ ("subtype" :> PyStr(<<"Stable-Diffusion">>)) @@ ("sortBy" :> PyStr(<<"Name">>))
    @@ ("allowRemote" :> PyBool(TRUE)) @@ ("sortReverse" :> PyBool(FALSE))

\* The body of the SelectModel POST.
SelectPayload(model_path, backendId) ==
    ("model" :> model_path) @@ ("backendId" :> backendId)

ListRequest(base_url, api_key) ==
    Request(ListUrl(base_url), JsonHeaders(api_key), ListPayload, NoTimeout)

SelectRequest(base_url, api_key, model_path, backendId) ==
    Request(SelectUrl(base_url), JsonHeaders(api_key),
            SelectPayload(model_path, backendId), NoTimeout)

-----------------------------------------------------------------------------
(* requests.post(...); resp.raise_for_status(); resp.json() *)

NoExc == ""

\* str(e) of the HTTPError that raise_for_status raises
HTTPErrorMsg(status) ==
    CASE status = 401 -> "401 Client Error"
      [] status = 500 -> "500 Server Error"
      [] OTHER -> "HTTPError"

\* requests.post raises on a transport failure.
PostExc(r) == IF r.net # "ok" THEN r.net ELSE NoExc

\* Faulty variant: the status of the response is never looked at.
RaiseForStatusSkipped(r) == NoExc

\* Response.raise_for_status raises for the 4xx and 5xx statuses only.
RaiseForStatus(r) ==
    IF r.status >= 400 /\ r.status < 600 THEN HTTPErrorMsg(r.status) ELSE NoExc

\* Response.json raises when the body is not JSON.
JsonExc(r) == IF r.json THEN NoExc ELSE "JSONDecodeError"

\* The three statements in sequence: the exception that ends them, if any,
\* else the parsed body.
Fetch(r) ==
    IF PostExc(r) # NoExc THEN [exc |-> PostExc(r), val |-> NullBody]
    ELSE IF RaiseForStatus(r) # NoExc THEN [exc |-> RaiseForStatus(r), val |-> NullBody]
    ELSE IF JsonExc(r) # NoExc THEN [exc |-> JsonExc(r), val |-> NullBody]
    ELSE [exc |-> NoExc, val |-> r.body]

-----------------------------------------------------------------------------
(* get_swarmui_session_id *)

\* data.get("session_id"): AttributeError unless data is a dict.
GetSessionField(body) ==
    IF body.t # "dict" THEN [exc |-> "AttributeError", val |-> None]
    ELSE IF "session_id" \in DOMAIN body.d
         THEN [exc |-> NoExc, val |-> body.d["session_id"]]
         ELSE [exc |-> NoExc, val |-> None]

\* Faulty variant: only the exceptions of the HTTP client are caught.
SessionExceptRequestsOnly(exc) ==
    IF exc \in {"AttributeError", "JSONDecodeError"}
    THEN [raised |-> TRUE, val |-> None]
    ELSE [raised |-> FALSE, val |-> None]

\* except Exception as e: log.error(...); return None
SessionExcept(exc) == [raised |-> FALSE, val |-> None]

\* The function on the response r its single POST receives: the requests it
\* issues, whether it raises, and what it returns.
get_swarmui_session_id(base_url, api_key, r) ==
    LET f == Fetch(r)
        g == GetSessionField(f.val)
        out == IF f.exc # NoExc THEN SessionExcept(f.exc)
               ELSE IF g.exc # NoExc THEN SessionExcept(g.exc)
               ELSE [raised |-> FALSE, val |-> g.val]
    IN  [requests |-> <<SessionRequest(base_url, api_key)>>,
         raised |-> out.raised, val |-> out.val]

-----------------------------------------------------------------------------
(* list_swarmui_models and select_swarmui_model *)

\* data.get(key, default): AttributeError unless data is a dict; the value
\* under the key whatever its type, the default when the key is absent.
DictGet(body, key, default) ==
    IF body.t # "dict" THEN [exc |-> "AttributeError", val |-> None]
    ELSE IF key \in DOMAIN body.d
         THEN [exc |-> NoExc, val |-> body.d[key]]
         ELSE [exc |-> NoExc, val |-> default]

\* except Exception as e: log.exception(...); return []
ListExcept(exc) == [raised |-> FALSE, val |-> PyList(<<>>)]

\* except Exception as e: log.exception(...); return False
SelectExcept(exc) == [raised |-> FALSE, val |-> PyBool(FALSE)]

list_swarmui_models(base_url, api_key, r) ==
    LET f == Fetch(r)
        g == DictGet(f.val, "files", PyList(<<>>))
        out == IF f.exc # NoExc THEN ListExcept(f.exc)
               ELSE IF g.exc # NoExc THEN ListExcept(g.exc)
               ELSE [raised |-> FALSE, val |-> g.val]
    IN  [requests |-> <<ListRequest(base_url, api_key)>>,
         raised |-> out.raised, val |-> out.val]

select_swarmui_model(base_url, api_key, model_path, backendId, r) ==
    LET f == Fetch(r)
        g == DictGet(f.val, "success", PyBool(FALSE))
        out == IF f.exc # NoExc THEN SelectExcept(f.exc)
               ELSE IF g.exc # NoExc THEN SelectExcept(g.exc)
               ELSE [raised |-> FALSE, val |-> g.val]
    IN  [requests |-> <<SelectRequest(base_url, api_key, model_path, backendId)>>,
         raised |-> out.raised, val |-> out.val]

-----------------------------------------------------------------------------
(* swarmui_generate_image: the pieces *)

\* What a call hands back: a dict (its keys, and the values under "data" and
\* "error"), a plain value (val), or an exception that escaped (st = "raised").
Pending == [st |-> "pending", keys |-> {}, data |-> <<>>, error |-> "", val |-> None]
ReturnData(images) ==
    [st |-> "returned", keys |-> {"data"}, data |-> images, error |-> "", val |-> None]
\* Faulty variant: the error result also carries the image list.
ReturnErrorWithData(msg) ==
    [st |-> "returned", keys |-> {"data", "error"}, data |-> <<>>, error |-> msg,
     val |-> None]

ReturnError(msg) ==
    [st |-> "returned", keys |-> {"error"}, data |-> <<>>, error |-> msg, val |-> None]
ReturnValue(v) ==
    [st |-> "returned", keys |-> {}, data |-> <<>>, error |-> "", val |-> v]
Raised(exc) ==
    [st |-> "raised", keys |-> {}, data |-> <<>>, error |-> exc, val |-> None]

NoSessionMsg == "Could not obtain SwarmUI session id"
NoSessionRetryMsg == "Could not obtain SwarmUI session id (retry)"

\* Faulty variant: the seed is tested for truth, not against None.
BuildDataSeedTruthy(model, payload, sid) ==
    LET raw_input ==
            ("prompt" :> payload.prompt) @@ ("width" :> payload.width)
            @@ ("height" :> payload.height) @@ ("steps" :> payload.steps)
            @@ ("images" :> payload.n) @@ ("session_id" :> sid)
            @@ (IF Truthy(payload.negative_prompt)
                THEN ("negative_prompt" :> payload.negative_prompt) ELSE EmptyDict)
            @@ (IF Truthy(payload.seed) THEN ("seed" :> payload.seed) ELSE EmptyDict)
            @@ (IF Truthy(model) THEN ("model" :> model) ELSE EmptyDict)
    IN  ("images" :> payload.n) @@ ("session_id" :> sid)
        @@ [k \in DOMAIN raw_input \ {"session_id"} |-> raw_input[k]]

\* raw_input and data: the JSON body of the generation POST.
BuildData(model, payload, sid) ==
    LET raw_input ==
            ("prompt" :> payload.prompt) @@ ("width" :> payload.width)
            @@ ("height" :> payload.height) @@ ("steps" :> payload.steps)
            @@ ("images" :> payload.n) @@ ("session_id" :> sid)
            @@ (IF Truthy(payload.negative_prompt)
                THEN ("negative_prompt" :> payload.negative_prompt) ELSE EmptyDict)
            @@ (IF payload.seed # None THEN ("seed" :> payload.seed) ELSE EmptyDict)
            @@ (IF Truthy(model) THEN ("model" :> model) ELSE EmptyDict)
    IN  ("images" :> payload.n) @@ ("session_id" :> sid)
        @@ [k \in DOMAIN raw_input \ {"session_id"} |-> raw_input[k]]

\* "error_id" in result and result["error_id"] == "invalid_session_id"
\* (`in` raises TypeError on None; on a list or a str it is a membership test,
\* false for the bodies modelled).
ExpiryTest(body) ==
    CASE body.t = "dict" ->
            [exc |-> NoExc,
             val |-> "error_id" \in DOMAIN body.d /\ body.d["error_id"] = InvalidSession]
      [] body.t = "none" -> [exc |-> "TypeError", val |-> FALSE]
      [] OTHER -> [exc |-> NoExc, val |-> FALSE]

\* The url of one image path.
ImageUrl(img_path, base_url) ==
    IF StartsWith(img_path, <<"d", "a", "t", "a", ":">>)
    THEN img_path
    ELSE IF ~StartsWith(img_path, <<"h", "t", "t", "p">>)
         THEN base_url \o <<"/">> \o img_path
         ELSE img_path

\* for img_path in ...: images.append({"url": ...}); an entry that is not a
\* str has no startswith (AttributeError).
RECURSIVE AppendImages(_, _, _)
AppendImages(images, entries, base_url) ==
    IF entries = <<>> THEN [exc |-> NoExc, val |-> images]
    ELSE LET img_path == Head(entries)
         IN  IF img_path.t # "str"
             THEN [exc |-> "AttributeError", val |-> images]
             ELSE AppendImages(Append(images, [url |-> ImageUrl(img_path.s, base_url)]),
                               Tail(entries), base_url)

\* What `for ... in v` iterates over: a list's entries, a str's characters;
\* None and int are not iterable (TypeError).
Iterate(v) ==
    CASE v.t = "list" -> [exc |-> NoExc, val |-> v.items]
      [] v.t = "str" -> [exc |-> NoExc, val |-> [i \in 1..Len(v.s) |-> PyStr(<<v.s[i]>>)]]
      [] OTHER -> [exc |-> "TypeError", val |-> <<>>]

\* images = []; for img_path in result.get("images", []): ...
ExtractImages(body, base_url) ==
    IF body.t # "dict" THEN [exc |-> "AttributeError", val |-> <<>>]
    ELSE LET got == IF "images" \in DOMAIN body.d THEN body.d["images"] ELSE PyList(<<>>)
             it == Iterate(got)
         IN  IF it.exc # NoExc THEN it ELSE AppendImages(<<>>, it.val, base_url)

\* Faulty variant: only the exceptions of the HTTP client are caught.
GenerateExceptRequestsOnly(exc) ==
    IF exc \in {"AttributeError", "TypeError"}
    THEN [st |-> "raised", keys |-> {}, data |-> <<>>, error |-> exc, val |-> None]
    ELSE [st |-> "returned", keys |-> {"error"}, data |-> <<>>, error |-> exc, val |-> None]

\* except Exception as e: log.exception(...); return {"error": str(e)}
GenerateExcept(exc) == ReturnError(exc)

\* The tail of the try block once `result` is final: build the image list and
\* return it.
Finish(body, base_url) ==
    LET x == ExtractImages(body, base_url)
    IN  IF x.exc # NoExc THEN GenerateExcept(x.exc) ELSE ReturnData(x.val)

\* The try block from the first response up to the retry or the return:
\* next is where the call goes, ret what it returns if it returns here.
AfterFirstResponse(r, base_url) ==
    LET f == Fetch(r)
        e == ExpiryTest(f.val)
    IN  IF f.exc # NoExc THEN [next |-> "done", result |-> NullBody, ret |-> GenerateExcept(f.exc)]
        ELSE IF e.exc # NoExc THEN [next |-> "done", result |-> f.val, ret |-> GenerateExcept(e.exc)]
        ELSE IF e.val THEN [next |-> "retrying", result |-> f.val, ret |-> Pending]
        ELSE [next |-> "done", result |-> f.val, ret |-> Finish(f.val, base_url)]

\* Faulty variant: the expiry test is applied to the second response as well.
AfterSecondResponseRetriesAgain(r, old, base_url) ==
    LET f == Fetch(r)
        e == ExpiryTest(f.val)
    IN  IF f.exc # NoExc THEN [next |-> "done", result |-> old, ret |-> GenerateExcept(f.exc)]
        ELSE IF e.exc = NoExc /\ e.val THEN [next |-> "retrying", result |-> f.val, ret |-> Pending]
        ELSE [next |-> "done", result |-> f.val, ret |-> Finish(f.val, base_url)]

\* The try block from the response to the resubmitted POST to the return.
AfterSecondResponse(r, old, base_url) ==
    LET f == Fetch(r)
    IN  IF f.exc # NoExc THEN [next |-> "done", result |-> old, ret |-> GenerateExcept(f.exc)]
        ELSE [next |-> "done", result |-> f.val, ret |-> Finish(f.val, base_url)]

-----------------------------------------------------------------------------
(* Calls *)

Calls == {1, 2}

\* The state of a call that has not run yet.
InitWith(ops) ==
    /\ op \in [Calls -> {"generate", "session", "list", "select", "none"}]
    /\ \A c \in Calls : op[c] \in ops[c]
    /\ pc = [c \in Calls |-> IF op[c] = "none" THEN "idle" ELSE "start"]
    /\ req \in [Calls -> Requests]
    /\ \A c \in Calls : op[c] = "none" => req[c] = Args(None, Form(None, 1, None, None), PyStr(<<>>))
    /\ headers = [c \in Calls |-> EmptyDict]
    /\ session_id = [c \in Calls |-> None]
    /\ data = [c \in Calls |-> EmptyDict]
    /\ result = [c \in Calls |-> NullBody]
    /\ ret = [c \in Calls |-> Pending]
    /\ sent = [c \in Calls |-> <<>>]
    /\ acqs = [c \in Calls |-> <<>>]
    /\ rcvd = [c \in Calls |-> <<>>]

Functions == {"generate", "session", "list", "select"}

\* One call, of any of the four functions; the other slot stays unused.
Init == InitWith([c \in Calls |-> IF c = 1 THEN Functions ELSE {"none"}])

\* A call of get_swarmui_session_id as the log keeps it.
Acquisition(r, a) == [resp |-> r, raised |-> a.raised, val |-> a.val]

-----------------------------------------------------------------------------
(* get_swarmui_session_id called on its own *)

SessionCall(c) ==
    /\ op[c] = "session" /\ pc[c] = "start"
    /\ \E r \in SessionResponses :
        LET a == get_swarmui_session_id(req[c].base_url, req[c].api_key, r)
        IN  /\ sent' = [sent EXCEPT ![c] = @ \o a.requests]
            /\ acqs' = [acqs EXCEPT ![c] = Append(@, Acquisition(r, a))]
            /\ ret' = [ret EXCEPT ![c] = IF a.raised THEN Raised("Exception")
                                          ELSE ReturnValue(a.val)]
            /\ pc' = [pc EXCEPT ![c] = "done"]
    /\ UNCHANGED <<op, req, headers, session_id, data, result, rcvd>>

-----------------------------------------------------------------------------
(* list_swarmui_models and select_swarmui_model called *)

ListCall(c) ==
    /\ op[c] = "list" /\ pc[c] = "start"
    /\ \E r \in ListResponses :
        LET a == list_swarmui_models(req[c].base_url, req[c].api_key, r)
        IN  /\ sent' = [sent EXCEPT ![c] = @ \o a.requests]
            /\ rcvd' = [rcvd EXCEPT ![c] = Append(@, r)]
            /\ ret' = [ret EXCEPT ![c] = IF a.raised THEN Raised("Exception")
                                          ELSE ReturnValue(a.val)]
            /\ pc' = [pc EXCEPT ![c] = "done"]
    /\ UNCHANGED <<op, req, headers, session_id, data, result, acqs>>

\* The model argument of the call is the model_path; backendId keeps its
\* default, None.
SelectCall(c) ==
    /\ op[c] = "select" /\ pc[c] = "start"
    /\ \E r \in SelectResponses :
        LET a == select_swarmui_model(req[c].base_url, req[c].api_key, req[c].model, None, r)
        IN  /\ sent' = [sent EXCEPT ![c] = @ \o a.requests]
            /\ rcvd' = [rcvd EXCEPT ![c] = Append(@, r)]
            /\ ret' = [ret EXCEPT ![c] = IF a.raised THEN Raised("Exception")
                                          ELSE ReturnValue(a.val)]
            /\ pc' = [pc EXCEPT ![c] = "done"]
    /\ UNCHANGED <<op, req, headers, session_id, data, result, acqs>>

-----------------------------------------------------------------------------
(* swarmui_generate_image *)

\* Faulty variant: the returned session id is used unchecked.
AfterAcquireNoCheck(a, model, payload) ==
    [next |-> "acquired", ret |-> Pending, session_id |-> a.val,
     data |-> BuildData(model, payload, a.val)]

\* Faulty variant: the session id is tested against None only.
AfterAcquireNoneOnly(a, model, payload) ==
    IF a.raised
    THEN [next |-> "done", ret |-> Raised("Exception"), session_id |-> None,
          data |-> EmptyDict]
    ELSE IF a.val = None
    THEN [next |-> "done", ret |-> ReturnError(NoSessionMsg), session_id |-> a.val,
          data |-> EmptyDict]
    ELSE [next |-> "acquired", ret |-> Pending, session_id |-> a.val,
          data |-> BuildData(model, payload, a.val)]

\* session_id = get_swarmui_session_id(...); if not session_id: return
\* {"error": ...}; raw_input; data.  The call stands outside the try block: an
\* exception it raised would leave swarmui_generate_image.
AfterAcquire(a, model, payload) ==
    IF a.raised
    THEN [next |-> "done", ret |-> Raised("Exception"), session_id |-> None,
          data |-> EmptyDict]
    ELSE IF ~Truthy(a.val)
    THEN [next |-> "done", ret |-> ReturnError(NoSessionMsg), session_id |-> a.val,
          data |-> EmptyDict]
    ELSE [next |-> "acquired", ret |-> Pending, session_id |-> a.val,
          data |-> BuildData(model, payload, a.val)]

AcquireSession(c) ==
    /\ op[c] = "generate" /\ pc[c] = "start"
    /\ \E r \in SessionResponses :
        LET a == get_swarmui_session_id(req[c].base_url, req[c].api_key, r)
            x == AfterAcquire(a, req[c].model, req[c].payload)
        IN  /\ headers' = [headers EXCEPT ![c] = Headers(req[c].api_key)]
            /\ sent' = [sent EXCEPT ![c] = @ \o a.requests]
            /\ acqs' = [acqs EXCEPT ![c] = Append(@, Acquisition(r, a))]
            /\ session_id' = [session_id EXCEPT ![c] = x.session_id]
            /\ data' = [data EXCEPT ![c] = x.data]
            /\ ret' = [ret EXCEPT ![c] = x.ret]
            /\ pc' = [pc EXCEPT ![c] = x.next]
    /\ UNCHANGED <<op, req, result, rcvd>>

\* Faulty variant: the session id is kept in one place for all calls, and the
\* POST carries whatever another call stored there last.
SubmitSharedSession(c) ==
    /\ op[c] = "generate" /\ pc[c] = "acquired"
    /\ LET other == CHOOSE d \in Calls : d # c
           sid == IF Truthy(session_id[other]) THEN session_id[other] ELSE session_id[c]
       IN  sent' = [sent EXCEPT ![c] =
                        Append(@, GenerateRequest(req[c].base_url, headers[c],
                                                  [data[c] EXCEPT !["session_id"] = sid]))]
    /\ pc' = [pc EXCEPT ![c] = "submitted"]
    /\ UNCHANGED <<op, req, headers, session_id, data, result, ret, acqs, rcvd>>

\* resp = requests.post(f"{base_url}/API/GenerateText2Image", ...): the request
\* leaves.
Submit(c) ==
    /\ op[c] = "generate" /\ pc[c] = "acquired"
    /\ sent' = [sent EXCEPT ![c] =
                    Append(@, GenerateRequest(req[c].base_url, headers[c], data[c]))]
    /\ pc' = [pc EXCEPT ![c] = "submitted"]
    /\ UNCHANGED <<op, req, headers, session_id, data, result, ret, acqs, rcvd>>

\* The first response arrives: raise_for_status, json, the expiry test, and,
\* unless the session expired, the image list and the return.
Receive(c) ==
    /\ op[c] = "generate" /\ pc[c] = "submitted"
    /\ \E r \in GenResponses :
        LET x == AfterFirstResponse(r, req[c].base_url)
        IN  /\ rcvd' = [rcvd EXCEPT ![c] = Append(@, r)]
            /\ result' = [result EXCEPT ![c] = x.result]
            /\ ret' = [ret EXCEPT ![c] = x.ret]
            /\ pc' = [pc EXCEPT ![c] = x.next]
    /\ UNCHANGED <<op, req, headers, session_id, data, sent, acqs>>

\* Faulty variant: the second session id is used unchecked.
AfterReacquireNoCheck(a, old_sid, d) ==
    [next |-> "reacquired", ret |-> Pending, session_id |-> a.val,
     data |-> [d EXCEPT !["session_id"] = a.val]]

\* Faulty variant: the payload keeps the expired session id.
AfterReacquireKeepsOldId(a, old_sid, d) ==
    IF a.raised
    THEN [next |-> "done", ret |-> GenerateExcept("Exception"), session_id |-> old_sid,
          data |-> d]
    ELSE IF ~Truthy(a.val)
    THEN [next |-> "done", ret |-> ReturnError(NoSessionRetryMsg), session_id |-> a.val,
          data |-> d]
    ELSE [next |-> "reacquired", ret |-> Pending, session_id |-> a.val, data |-> d]

\* Faulty variant: the retry re-enters the code of the first POST.
AfterReacquireStartsOver(a, old_sid, d) ==
    IF a.raised \/ ~Truthy(a.val)
    THEN [next |-> "done", ret |-> ReturnError(NoSessionRetryMsg), session_id |-> a.val,
          data |-> d]
    ELSE [next |-> "acquired", ret |-> Pending, session_id |-> a.val,
          data |-> [d EXCEPT !["session_id"] = a.val]]

\* session_id = get_swarmui_session_id(...) inside the try block; if not
\* session_id: return {"error": "... (retry)"}; data["session_id"] = session_id
AfterReacquire(a, old_sid, d) ==
    IF a.raised
    THEN [next |-> "done", ret |-> GenerateExcept("Exception"), session_id |-> old_sid,
          data |-> d]
    ELSE IF ~Truthy(a.val)
    THEN [next |-> "done", ret |-> ReturnError(NoSessionRetryMsg), session_id |-> a.val,
          data |-> d]
    ELSE [next |-> "reacquired", ret |-> Pending, session_id |-> a.val,
          data |-> [d EXCEPT !["session_id"] = a.val]]

ReacquireSession(c) ==
    /\ op[c] = "generate" /\ pc[c] = "retrying"
    /\ Len(acqs[c]) < MaxRounds
    /\ \E r \in SessionResponses :
        LET a == get_swarmui_session_id(req[c].base_url, req[c].api_key, r)
            x == AfterReacquire(a, session_id[c], data[c])
        IN  /\ sent' = [sent EXCEPT ![c] = @ \o a.requests]
            /\ acqs' = [acqs EXCEPT ![c] = Append(@, Acquisition(r, a))]
            /\ session_id' = [session_id EXCEPT ![c] = x.session_id]
            /\ data' = [data EXCEPT ![c] = x.data]
            /\ ret' = [ret EXCEPT ![c] = x.ret]
            /\ pc' = [pc EXCEPT ![c] = x.next]
    /\ UNCHANGED <<op, req, headers, result, rcvd>>

\* The second requests.post: the request leaves.
Resubmit(c) ==
    /\ op[c] = "generate" /\ pc[c] = "reacquired"
    /\ sent' = [sent EXCEPT ![c] =
                    Append(@, GenerateRequest(req[c].base_url, headers[c], data[c]))]
    /\ pc' = [pc EXCEPT ![c] = "resubmitted"]
    /\ UNCHANGED <<op, req, headers, session_id, data, result, ret, acqs, rcvd>>

\* The response to the resubmitted POST: raise_for_status, json, then straight
\* to the image list and the return.
ReceiveRetry(c) ==
    /\ op[c] = "generate" /\ pc[c] = "resubmitted"
    /\ \E r \in GenResponses :
        LET x == AfterSecondResponse(r, result[c], req[c].base_url)
        IN  /\ rcvd' = [rcvd EXCEPT ![c] = Append(@, r)]
            /\ result' = [result EXCEPT ![c] = x.result]
            /\ ret' = [ret EXCEPT ![c] = x.ret]
            /\ pc' = [pc EXCEPT ![c] = x.next]
    /\ UNCHANGED <<op, req, headers, session_id, data, sent, acqs>>

-----------------------------------------------------------------------------

\* One step of call c.
CallStep(c) ==
    \/ SessionCall(c)
    \/ ListCall(c)
    \/ SelectCall(c)
    \/ AcquireSession(c)
    \/ Submit(c)
    \/ Receive(c)
    \/ ReacquireSession(c)
    \/ Resubmit(c)
    \/ ReceiveRetry(c)

Next == \E c \in Calls : CallStep(c)

Spec == Init /\ [][Next]_vars

(* Concurrent calls *)

\* Two calls at once: a call of swarmui_generate_image and a call of any of
\* the four functions. The functions keep everything in locals, so each call
\* has its own slot of every variable.
ConcRequests ==
    { Args(PyStr(<<"m">>), Form(PyStr(<<"np">>), 1, PyInt(20), PyInt(7)), PyStr(<<"k">>)),
      Args(None, Form(None, 1, None, None), PyStr(<<>>)) }

InitConc ==
    /\ InitWith([c \in Calls |-> IF c = 1 THEN {"generate"} ELSE Functions])
    /\ \A c \in Calls : req[c] \in ConcRequests

\* The answers the server gives while two calls run.
ConcSessionResponses ==
    { NetError("ConnectionError"),
      Http(200, DictBody("session_id" :> PyStr(<<>>))),
      Http(200, DictBody("session_id" :> PyStr(S1))),
      Http(200, DictBody("session_id" :> PyStr(S2))) }

ConcResponses ==
    { NetError("ReadTimeout"),
      Http(200, ExpiredBody),
      Http(200, DictBody(EmptyDict)),
      Http(200, DictBody("images" :> PyList(<<PyStr(RelPath)>>))),
      Http(200, DictBody("files" :> PyList(<<M1>>))),
      Http(200, DictBody("success" :> PyBool(TRUE))) }

ConcEnvironment ==
    \A c \in Calls :
        /\ \A i \in DOMAIN acqs[c] : acqs[c][i].resp \in ConcSessionResponses
        /\ \A i \in DOMAIN rcvd[c] : rcvd[c][i] \in ConcResponses

\* The calls' steps interleave in any order.
NextConc == \E c \in Calls : CallStep(c) /\ ConcEnvironment'

SpecConc == InitConc /\ [][NextConc]_vars

\* Every step of a call is a computation or the wait for the answer to a POST.
\* The computation goes on, and the HTTP client ends every wait (an answer, an
\* error, or the timeout of 20 s / 120 s), so a call that can take a step
\* takes it.
Fairness == \A c \in Calls : WF_vars(CallStep(c))

FairSpec == Spec /\ Fairness

-----------------------------------------------------------------------------
(* Vocabulary of the properties: what the service did, read off the logs *)

CountUrl(requests, url) == Cardinality({i \in DOMAIN requests : requests[i].url = url})

\* POSTs to /API/GetNewSession and to /API/GenerateText2Image issued by call c.
SessionPosts(c) == CountUrl(sent[c], SessionUrl(req[c].base_url))
GenPosts(c) == CountUrl(sent[c], GenerateUrl(req[c].base_url))

\* An answer with a 2xx status.
Status2xx(r) == r.net = "ok" /\ r.status >= 200 /\ r.status <= 299

\* A body that is a JSON object with error_id = "invalid_session_id".
SignalsExpiry(r) ==
    /\ r.net = "ok" /\ r.json /\ r.body.t = "dict"
    /\ "error_id" \in DOMAIN r.body.d
    /\ r.body.d["error_id"] = PyStr(<<"invalid_session_id">>)

\* The first generation POST was answered 2xx with the session-expired signal.
FirstExpired(c) ==
    /\ op[c] = "generate" /\ Len(rcvd[c]) >= 1
    /\ Status2xx(rcvd[c][1]) /\ SignalsExpiry(rcvd[c][1])

\* An acquisition that handed back a session id: a non-empty string.
GotSession(a) == ~a.raised /\ a.val.t = "str" /\ Len(a.val.s) > 0

IsError(c, msg) ==
    ret[c].st = "returned" /\ ret[c].keys = {"error"} /\ ret[c].error = msg

-----------------------------------------------------------------------------
(* C1 *)

\* C1: one call of swarmui_generate_image makes at most two session
\* acquisitions and sends at most two POSTs to /API/GenerateText2Image,
\* whatever the service answers.
C1_AtMostTwoRounds ==
    \A c \in Calls :
        op[c] = "generate" =>
            /\ Len(acqs[c]) <= 2
            /\ SessionPosts(c) <= 2
            /\ GenPosts(c) <= 2

\* The service answered both generation POSTs with the expiry signal.
C1_Witness ==
    \E c \in Calls :
        /\ FirstExpired(c) /\ pc[c] = "done" /\ Len(rcvd[c]) = 2
        /\ Status2xx(rcvd[c][2]) /\ SignalsExpiry(rcvd[c][2])
        /\ Len(acqs[c]) = 2 /\ GenPosts(c) = 2

(* C2 *)

\* C2: after a 2xx first response that signals session-expired, the call
\* acquires a session exactly once more, as its next step; if that acquisition
\* hands back a session id, exactly one more generation POST is sent; if it
\* does not, the call returns the retry-specific error and sends no further
\* generation POST.
C2_RetryOnce ==
    \A c \in Calls :
        FirstExpired(c) =>
            /\ Len(acqs[c]) \in {1, 2}
            /\ (Len(acqs[c]) = 1 <=> pc[c] = "retrying")
            /\ Len(acqs[c]) = 2 =>
                IF GotSession(acqs[c][2])
                THEN \/ pc[c] = "reacquired" /\ GenPosts(c) = 1
                     \/ pc[c] \in {"resubmitted", "done"} /\ GenPosts(c) = 2
                ELSE /\ pc[c] = "done"
                     /\ IsError(c, "Could not obtain SwarmUI session id (retry)")
                     /\ GenPosts(c) = 1

\* The second acquisition failed after an expired first response.
C2_Witness ==
    \E c \in Calls :
        /\ FirstExpired(c) /\ Len(acqs[c]) = 2 /\ ~GotSession(acqs[c][2])
        /\ IsError(c, "Could not obtain SwarmUI session id (retry)")

(* C3 *)

\* C3: when the initial acquisition returns None, the call returns the error
\* "Could not obtain SwarmUI session id" after exactly one acquisition and no
\* generation POST.
C3_NoSessionNoPost ==
    \A c \in Calls :
        (op[c] = "generate" /\ Len(acqs[c]) >= 1 /\ ~acqs[c][1].raised
         /\ acqs[c][1].val = None) =>
            /\ pc[c] = "done"
            /\ IsError(c, "Could not obtain SwarmUI session id")
            /\ Len(acqs[c]) = 1
            /\ SessionPosts(c) = 1
            /\ GenPosts(c) = 0

C3_Witness ==
    \E c \in Calls :
        /\ op[c] = "generate" /\ Len(acqs[c]) = 1 /\ acqs[c][1].val = None
        /\ acqs[c][1].resp.net = "ok" /\ pc[c] = "done"

(* C4 *)

\* C4: no exception leaves swarmui_generate_image: a call that has ended has
\* returned a value.
C4_NeverRaises ==
    \A c \in Calls :
        op[c] = "generate" =>
            /\ ret[c].st # "raised"
            /\ pc[c] = "done" => ret[c].st = "returned"

\* The retried round ended on an image entry that is not a string.
C4_Witness ==
    \E c \in Calls :
        /\ op[c] = "generate" /\ pc[c] = "done" /\ Len(rcvd[c]) = 2
        /\ Status2xx(rcvd[c][2]) /\ rcvd[c][2].json /\ rcvd[c][2].body.t = "dict"
        /\ "images" \in DOMAIN rcvd[c][2].body.d
        /\ rcvd[c][2].body.d["images"].t = "list"
        /\ \E i \in DOMAIN rcvd[c][2].body.d["images"].items :
                rcvd[c][2].body.d["images"].items[i].t # "str"
        /\ ret[c].st = "returned"

(* C5 *)

\* C5: a returned result never holds both "data" and "error", and holds "data"
\* whenever it holds no "error".
C5_OneOutcome ==
    \A c \in Calls :
        (op[c] = "generate" /\ ret[c].st = "returned") =>
            /\ ~({"data", "error"} \subseteq ret[c].keys)
            /\ "error" \notin ret[c].keys => "data" \in ret[c].keys

\* A success result whose image list is empty.
C5_Witness ==
    \E c \in Calls :
        /\ op[c] = "generate" /\ ret[c].st = "returned"
        /\ ret[c].keys = {"data"} /\ ret[c].data = <<>>

(* C6 *)

\* The POST itself failed: no response came back.
TransportFailed(r) == r.net # "ok"

\* A response with a 4xx or 5xx status.
HttpErrorStatus(r) == r.net = "ok" /\ r.status >= 400 /\ r.status <= 599

\* The text of a transport or HTTP failure.
FailureText(r) == IF TransportFailed(r) THEN r.net ELSE HTTPErrorMsg(r.status)

\* What "never retried" asks of call c once its first generation POST failed.
NotRetried(c) ==
    /\ pc[c] = "done"
    /\ Len(acqs[c]) = 1
    /\ SessionPosts(c) = 1
    /\ GenPosts(c) = 1
    /\ IsError(c, FailureText(rcvd[c][1]))

\* C6 as claimed: a transport failure or any non-2xx status on the first
\* generation POST ends the call with {error: <failure text>}, with no second
\* acquisition and no second generation POST.
C6_AsClaimed ==
    \A c \in Calls :
        (op[c] = "generate" /\ Len(rcvd[c]) >= 1
         /\ (TransportFailed(rcvd[c][1]) \/ ~Status2xx(rcvd[c][1]))) =>
            NotRetried(c)

\* C6, amended: a transport failure or a 4xx/5xx status on the first
\* generation POST, even with the session-expired code in its body, ends the
\* call with {error: <failure text>}, with no second acquisition and no second
\* generation POST.
C6_NoRetryOnFailure ==
    \A c \in Calls :
        (op[c] = "generate" /\ Len(rcvd[c]) >= 1
         /\ (TransportFailed(rcvd[c][1]) \/ HttpErrorStatus(rcvd[c][1]))) =>
            NotRetried(c)

\* A 401 whose body carries the session-expired code was not retried.
C6_Witness ==
    \E c \in Calls :
        /\ op[c] = "generate" /\ Len(rcvd[c]) = 1
        /\ rcvd[c][1].status = 401 /\ SignalsExpiry(rcvd[c][1])
        /\ IsError(c, "401 Client Error")

(* C7 *)

\* The single recovery attempt of call c failed: no second session, or the
\* resubmitted POST failed (transport, 4xx/5xx), or its response signals
\* session-expired again.
RecoveryFailed(c) ==
    \/ Len(acqs[c]) = 2 /\ ~GotSession(acqs[c][2])
    \/ /\ Len(rcvd[c]) = 2
       /\ \/ TransportFailed(rcvd[c][2])
          \/ HttpErrorStatus(rcvd[c][2])
          \/ SignalsExpiry(rcvd[c][2])

\* C7 as claimed: when the recovery attempt after an expired first response
\* fails, the call returns an error result, never a success result.
C7_RecoveryFailureIsError ==
    \A c \in Calls :
        (FirstExpired(c) /\ pc[c] = "done" /\ RecoveryFailed(c)) =>
            ret[c].st = "returned" /\ ret[c].keys = {"error"}

(* C8 *)

\* The three-way rule as stated: data: and http:// / https:// pass through,
\* anything else is joined to base_url.
ThreeWay(p, base_url) ==
    IF StartsWith(p, <<"d", "a", "t", "a", ":">>) THEN p
    ELSE IF \/ StartsWith(p, <<"h", "t", "t", "p", ":", "/", "/">>)
            \/ StartsWith(p, <<"h", "t", "t", "p", "s", ":", "/", "/">>)
         THEN p
         ELSE base_url \o <<"/">> \o p

\* The last response delivered to call c's generation POSTs.
FinalResponse(c) == rcvd[c][Len(rcvd[c])]

\* The response carries an image list: "images" is a list of strings.
HasImageList(r) ==
    /\ r.net = "ok" /\ r.json /\ r.body.t = "dict"
    /\ "images" \in DOMAIN r.body.d
    /\ r.body.d["images"].t = "list"
    /\ \A i \in DOMAIN r.body.d["images"].items : r.body.d["images"].items[i].t = "str"

\* C8 as claimed: every image reference of a success result is resolved by
\* the three-way rule.
C8_ThreeWayRule ==
    \A c \in Calls :
        (op[c] = "generate" /\ ret[c].st = "returned" /\ ret[c].keys = {"data"}
         /\ Len(rcvd[c]) >= 1 /\ HasImageList(FinalResponse(c))) =>
            LET entries == FinalResponse(c).body.d["images"].items
            IN  \A i \in DOMAIN entries \cap DOMAIN ret[c].data :
                    ret[c].data[i].url = ThreeWay(entries[i].s, req[c].base_url)

(* C9 *)

\* The image list of a response: "images" when present, else empty.
ImageListOf(r) ==
    IF "images" \in DOMAIN r.body.d THEN r.body.d["images"].items ELSE <<>>

\* A 2xx response, a JSON object, without the expiry signal, whose "images" is
\* absent or a list of strings.
SuccessfulFinal(r) ==
    /\ Status2xx(r) /\ r.json /\ r.body.t = "dict" /\ ~SignalsExpiry(r)
    /\ "images" \in DOMAIN r.body.d => HasImageList(r)

\* C9 as claimed: on a successful final response (first attempt or retry) the
\* call returns {data: images} with one {url: resolve(entry)} per entry of the
\* response's image list, in the same order, resolve being the three-way rule.
C9_SuccessResult ==
    \A c \in Calls :
        (op[c] = "generate" /\ pc[c] = "done" /\ Len(rcvd[c]) >= 1
         /\ SuccessfulFinal(FinalResponse(c))) =>
            LET entries == ImageListOf(FinalResponse(c))
            IN  /\ ret[c].st = "returned" /\ ret[c].keys = {"data"}
                /\ ret[c].data = [i \in 1..Len(entries) |->
                                    [url |-> ThreeWay(entries[i].s, req[c].base_url)]]

(* C10 *)

\* The response carries no session identifier field.
LacksSessionField(r) ==
    ~(r.net = "ok" /\ r.json /\ r.body.t = "dict" /\ "session_id" \in DOMAIN r.body.d)

\* get_swarmui_session_id sends one POST to /API/GetNewSession per call, and a
\* call on its own hands back what the acquisition produced.
OnePostPerAcquisition(c) ==
    /\ SessionPosts(c) = Len(acqs[c])
    /\ (op[c] = "session" /\ pc[c] = "done") =>
            /\ Len(acqs[c]) = 1 /\ Len(sent[c]) = 1
            /\ ret[c].st = "returned" /\ ret[c].val = acqs[c][1].val

\* C10 as claimed: one POST per call, never raises, None on a transport
\* error, on any non-2xx status or on a response without the field; the
\* identifier only from a 2xx response that holds the field.
C10_AsClaimed ==
    \A c \in Calls :
        /\ OnePostPerAcquisition(c)
        /\ \A i \in DOMAIN acqs[c] :
            LET a == acqs[c][i]
            IN  /\ ~a.raised
                /\ (TransportFailed(a.resp) \/ ~Status2xx(a.resp)
                    \/ LacksSessionField(a.resp)) => a.val = None
                /\ a.val # None =>
                    /\ Status2xx(a.resp) /\ ~LacksSessionField(a.resp)
                    /\ a.val = a.resp.body.d["session_id"]

\* C10, amended: one POST per call, never raises, None on a transport error,
\* on a 4xx/5xx status or on a response without the field; the identifier only
\* from a response that is not 4xx/5xx and holds the field.
C10_SessionOrNone ==
    \A c \in Calls :
        /\ OnePostPerAcquisition(c)
        /\ \A i \in DOMAIN acqs[c] :
            LET a == acqs[c][i]
            IN  /\ ~a.raised
                /\ (TransportFailed(a.resp) \/ HttpErrorStatus(a.resp)
                    \/ LacksSessionField(a.resp)) => a.val = None
                /\ a.val # None =>
                    /\ ~TransportFailed(a.resp) /\ ~HttpErrorStatus(a.resp)
                    /\ ~LacksSessionField(a.resp)
                    /\ a.val = a.resp.body.d["session_id"]

\* A 500 answer that holds a session id made the call return None.
C10_Witness ==
    \E c \in Calls :
        /\ op[c] = "session" /\ pc[c] = "done"
        /\ acqs[c][1].resp.status = 500 /\ ~LacksSessionField(acqs[c][1].resp)
        /\ ret[c].st = "returned" /\ ret[c].val = None

(* C11 *)

\* The one response delivered to a list / select call.
OnlyResponse(c) == rcvd[c][1]

\* The POST was answered, not with a 4xx/5xx status, by a JSON object.
AnsweredWithObject(r) ==
    /\ ~TransportFailed(r) /\ ~HttpErrorStatus(r)
    /\ r.json /\ r.body.t = "dict"

\* The response is a well-shaped ListModels / SelectModel answer.
ListOk(r) ==
    /\ AnsweredWithObject(r)
    /\ "files" \in DOMAIN r.body.d /\ r.body.d["files"].t = "list"
SelectOk(r) ==
    /\ AnsweredWithObject(r)
    /\ "success" \in DOMAIN r.body.d /\ r.body.d["success"].t = "bool"

\* C11 as claimed: list_swarmui_models and select_swarmui_model send one POST
\* per call and never raise; on a failed POST (transport error, error status,
\* unparsable or wrongly shaped body) they return [] respectively False, and
\* on success the response's files list respectively its success flag.
C11_SentinelOnFailure ==
    \A c \in Calls :
        (op[c] \in {"list", "select"} /\ pc[c] = "done") =>
            /\ Len(sent[c]) = 1
            /\ ret[c].st = "returned"
            /\ op[c] = "list" =>
                ret[c].val = IF ListOk(OnlyResponse(c))
                             THEN OnlyResponse(c).body.d["files"]
                             ELSE PyList(<<>>)
            /\ op[c] = "select" =>
                ret[c].val = IF SelectOk(OnlyResponse(c))
                             THEN OnlyResponse(c).body.d["success"]
                             ELSE PyBool(FALSE)

(* C12 *)

\* The api key of call c is non-empty.
HasApiKey(c) == req[c].api_key.t = "str" /\ Len(req[c].api_key.s) > 0

\* C12 as claimed: every request sent, by any of the four functions, carries
\* User-Agent: Mozilla/5.0, and carries Authorization: Bearer <api_key>
\* exactly when the api key is non-empty.
C12_HeadersOnEveryRequest ==
    \A c \in Calls :
        \A i \in DOMAIN sent[c] :
            LET h == sent[c][i].headers
            IN  /\ "User-Agent" \in DOMAIN h
                /\ h["User-Agent"] = <<"Mozilla/5.0">>
                /\ "Authorization" \in DOMAIN h <=> HasApiKey(c)
                /\ "Authorization" \in DOMAIN h =>
                        h["Authorization"] = <<"Bearer ">> \o req[c].api_key.s

(* C13 *)

\* C13 as claimed: counting session acquisitions and generation POSTs
\* together, a call of swarmui_generate_image makes at most two round trips,
\* and the other three functions at most one.
C13_AsClaimed ==
    \A c \in Calls :
        /\ op[c] = "generate" => Len(sent[c]) <= 2
        /\ op[c] \in {"session", "list", "select"} => Len(sent[c]) <= 1

\* C13, amended: a call of swarmui_generate_image makes at most four round
\* trips (two session acquisitions, two generation POSTs), and the other
\* three functions at most one.
C13_RoundTrips ==
    \A c \in Calls :
        /\ op[c] = "generate" => Len(sent[c]) <= 4
        /\ op[c] \in {"session", "list", "select"} => Len(sent[c]) <= 1

\* A call that went through the retry made four round trips.
C13_Witness ==
    \E c \in Calls :
        /\ op[c] = "generate" /\ pc[c] = "done"
        /\ Len(sent[c]) = 4 /\ Len(acqs[c]) = 2 /\ GenPosts(c) = 2

(* C14 *)

\* The state of the stated state machine a call of swarmui_generate_image is
\* in: the retry (second acquisition, resubmitted POST) is one state.
ControlState(c) ==
    CASE pc[c] = "start" -> "NoSession"
      [] pc[c] = "acquired" -> "SessionAcquired"
      [] pc[c] = "submitted" -> "Submitted"
      [] pc[c] \in {"retrying", "reacquired", "resubmitted"} -> "SessionExpiredRetrying"
      [] pc[c] = "done" ->
            IF ret[c].st = "returned" /\ ret[c].keys = {"data"}
            THEN "Succeeded" ELSE "Failed"
      [] OTHER -> "Idle"

\* The transitions of the stated state machine.
StatedEdges ==
    { <<"NoSession", "SessionAcquired">>,
      <<"SessionAcquired", "Submitted">>,
      <<"Submitted", "Succeeded">>,
      <<"Submitted", "SessionExpiredRetrying">>,
      <<"Submitted", "Failed">>,
      <<"SessionExpiredRetrying", "Succeeded">>,
      <<"SessionExpiredRetrying", "Failed">> }

StartsInNoSession == \A c \in Calls : op[c] = "generate" => ControlState(c) = "NoSession"

\* C14 as claimed: a call starts in NoSession and its control state changes
\* only along the stated transitions.
C14_AsClaimed ==
    /\ StartsInNoSession
    /\ [][\A c \in Calls :
            op[c] = "generate" =>
                \/ ControlState(c)' = ControlState(c)
                \/ <<ControlState(c), ControlState(c)'>> \in StatedEdges]_vars

\* C14, amended: a call starts in NoSession and its control state changes
\* only along the stated transitions or along NoSession -> Failed (the initial
\* acquisition hands back no session).
C14_Transitions ==
    /\ StartsInNoSession
    /\ [][\A c \in Calls :
            op[c] = "generate" =>
                \/ ControlState(c)' = ControlState(c)
                \/ <<ControlState(c), ControlState(c)'>>
                        \in StatedEdges \cup {<<"NoSession", "Failed">>}]_vars

\* A call that went from NoSession straight to Failed.
C14_Witness ==
    \E c \in Calls :
        /\ op[c] = "generate" /\ ControlState(c) = "Failed"
        /\ Len(acqs[c]) = 1 /\ GenPosts(c) = 0

(* C15 *)

\* The response whose body the image loop reads: the only response when it
\* does not signal expiry, the response to the resubmitted POST otherwise.
ExtractedFrom(c, r) ==
    /\ pc[c] = "done" /\ Len(rcvd[c]) >= 1 /\ r = FinalResponse(c)
    /\ Len(rcvd[c]) = 1 => ~SignalsExpiry(r)

\* A 2xx response with a JSON body from which no image list can be taken: the
\* body is no object, or "images" is missing, null, or no list of strings.
NoImageList(r) == Status2xx(r) /\ r.json /\ ~HasImageList(r)

\* C15 as claimed: when no image list can be taken from a successful
\* generation response, the call returns a success result with an empty image
\* sequence.
C15_PermissiveOnMalformed ==
    \A c \in Calls :
        (op[c] = "generate" /\ ExtractedFrom(c, FinalResponse(c))
         /\ NoImageList(FinalResponse(c))) =>
            /\ ret[c].st = "returned" /\ ret[c].keys = {"data"}
            /\ ret[c].data = <<>>

(* C16 *)

\* The generation POSTs of call c, in the order sent.
GenRequests(c) ==
    SelectSeq(sent[c], LAMBDA q : q.url = GenerateUrl(req[c].base_url))

\* The session id in the answer to the k-th acquisition of call c.
AnsweredId(c, k) == acqs[c][k].resp.body.d["session_id"]

\* C16: the resubmitted generation POST has the url and the headers of the
\* first one, and its body has the same fields with the same values, except
\* session_id, which is the id the second acquisition was answered with.
C16_RetryBodyFrame ==
    \A c \in Calls :
        (op[c] = "generate" /\ Len(GenRequests(c)) = 2) =>
            LET first == GenRequests(c)[1]
                second == GenRequests(c)[2]
            IN  /\ second.url = first.url
                /\ second.headers = first.headers
                /\ DOMAIN second.json = DOMAIN first.json
                /\ \A k \in DOMAIN first.json \ {"session_id"} :
                        second.json[k] = first.json[k]
                /\ Len(acqs[c]) = 2
                /\ second.json["session_id"] = AnsweredId(c, 2)

\* A resubmitted POST whose session id differs from the first POST's.
C16_Witness ==
    \E c \in Calls :
        /\ op[c] = "generate" /\ Len(GenRequests(c)) = 2
        /\ GenRequests(c)[2].json["session_id"] # GenRequests(c)[1].json["session_id"]
        /\ "negative_prompt" \in DOMAIN GenRequests(c)[1].json

(* C18 *)

\* A value that is present and not the empty string.
NonEmpty(v) == v.t # "none" /\ ~(v.t = "str" /\ v.s = <<>>)

\* C18: the body of every generation POST has prompt, width, height, steps,
\* images (the request's n) and the session id the call was answered with; it
\* has negative_prompt exactly when the request's is present and non-empty,
\* seed exactly when the request's is present (0 included), model exactly when
\* a model is supplied (present and non-empty); and nothing else.
C18_PayloadContents ==
    \A c \in Calls :
        op[c] = "generate" =>
            \A i \in DOMAIN GenRequests(c) :
                LET body == GenRequests(c)[i].json
                    form == req[c].payload
                IN  /\ {"prompt", "width", "height", "steps", "images", "session_id"}
                            \subseteq DOMAIN body
                    /\ DOMAIN body \subseteq
                            {"prompt", "width", "height", "steps", "images", "session_id",
                             "negative_prompt", "seed", "model"}
                    /\ body["prompt"] = form.prompt /\ body["width"] = form.width
                    /\ body["height"] = form.height /\ body["steps"] = form.steps
                    /\ body["images"] = form.n
                    /\ i <= Len(acqs[c]) /\ body["session_id"] = AnsweredId(c, i)
                    /\ "negative_prompt" \in DOMAIN body <=> NonEmpty(form.negative_prompt)
                    /\ "negative_prompt" \in DOMAIN body =>
                            body["negative_prompt"] = form.negative_prompt
                    /\ "seed" \in DOMAIN body <=> form.seed.t # "none"
                    /\ "seed" \in DOMAIN body => body["seed"] = form.seed
                    /\ "model" \in DOMAIN body <=> NonEmpty(req[c].model)
                    /\ "model" \in DOMAIN body => body["model"] = req[c].model

\* A generation POST for a request with seed 0, an empty negative_prompt and
\* an empty model.
C18_Witness ==
    \E c \in Calls :
        /\ op[c] = "generate" /\ Len(GenRequests(c)) >= 1
        /\ req[c].payload.seed = PyInt(0)
        /\ req[c].payload.negative_prompt = PyStr(<<>>)
        /\ req[c].model = PyStr(<<>>)
        /\ "seed" \in DOMAIN GenRequests(c)[1].json

(* C19 *)

\* An acquisition whose answer was accepted and carries the empty string as
\* its session id.
AnsweredEmptyId(a) ==
    /\ a.resp.net = "ok" /\ a.resp.status < 400 /\ a.resp.json
    /\ a.resp.body.t = "dict" /\ "session_id" \in DOMAIN a.resp.body.d
    /\ a.resp.body.d["session_id"] = PyStr(<<>>)

\* C19: every generation POST carries a session id that is neither null nor
\* empty and follows, in the same call, an acquisition that returned that
\* non-empty id; an acquisition answered with an empty-string id ends the call
\* with the error result for its round and no POST follows it.
C19_NoPostWithoutSession ==
    \A c \in Calls :
        op[c] = "generate" =>
            /\ \A i \in DOMAIN GenRequests(c) :
                LET sid == GenRequests(c)[i].json["session_id"]
                IN  /\ sid.t = "str" /\ Len(sid.s) > 0
                    /\ i <= Len(acqs[c]) /\ GotSession(acqs[c][i])
                    /\ acqs[c][i].val = sid
            /\ \A k \in DOMAIN acqs[c] :
                AnsweredEmptyId(acqs[c][k]) =>
                    /\ Len(acqs[c]) = k /\ Len(GenRequests(c)) = k - 1
                    /\ pc[c] = "done"
                    /\ IsError(c, IF k = 1
                                  THEN "Could not obtain SwarmUI session id"
                                  ELSE "Could not obtain SwarmUI session id (retry)")

\* A call whose first acquisition was answered 200 with an empty-string id.
C19_Witness ==
    \E c \in Calls :
        /\ op[c] = "generate" /\ Len(acqs[c]) = 1 /\ AnsweredEmptyId(acqs[c][1])
        /\ ret[c].st = "returned"

(* C20 *)

\* The call has returned a success or an error result.
Terminal(c) ==
    /\ pc[c] = "done" /\ ret[c].st = "returned"
    /\ ret[c].keys \in {{"data"}, {"error"}}

\* C20: when every step that can be taken is taken (every POST is answered or
\* fails), every call of swarmui_generate_image reaches a terminal state and
\* returns.
C20_Terminates ==
    \A c \in Calls : (op[c] = "generate") ~> Terminal(c)

\* A call that returned after the server signalled expiry on both POSTs.
C20_Witness ==
    \E c \in Calls :
        /\ op[c] = "generate" /\ Terminal(c)
        /\ Len(rcvd[c]) = 2 /\ SignalsExpiry(rcvd[c][1]) /\ SignalsExpiry(rcvd[c][2])

(* C17 *)

\* The acquisition of call c that precedes position p of its requests: the
\* number of POSTs to /API/GetNewSession among the first p - 1.
AcquisitionBefore(c, p) ==
    Cardinality({i \in 1..(p - 1) : sent[c][i].url = SessionUrl(req[c].base_url)})

\* The ids call c was handed by its own acquisitions.
AcquiredIds(c) == {acqs[c][k].val : k \in {k \in DOMAIN acqs[c] : GotSession(acqs[c][k])}}

\* What a call returns, as a function of its arguments and of the answers to
\* its own requests alone.
OwnOutcome(c) ==
    IF ~GotSession(acqs[c][1]) THEN ReturnError(NoSessionMsg)
    ELSE LET x == AfterFirstResponse(rcvd[c][1], req[c].base_url)
         IN  IF x.next = "done" THEN x.ret
             ELSE IF ~GotSession(acqs[c][2]) THEN ReturnError(NoSessionRetryMsg)
             ELSE AfterSecondResponse(rcvd[c][2], x.result, req[c].base_url).ret

\* C17: while two calls interleave, every generation POST of a call carries
\* the id of that call's latest acquisition before it, never an id only the
\* other call acquired, and the result of a finished call is a function of
\* the answers to its own requests.
C17_Independent ==
    \A c \in Calls :
        op[c] = "generate" =>
            /\ \A p \in DOMAIN sent[c] :
                sent[c][p].url = GenerateUrl(req[c].base_url) =>
                    LET k == AcquisitionBefore(c, p)
                        sid == sent[c][p].json["session_id"]
                    IN  /\ k \in DOMAIN acqs[c] /\ GotSession(acqs[c][k])
                        /\ sid = acqs[c][k].val
                        /\ \A d \in Calls \ {c} :
                                sid \in AcquiredIds(d) => sid \in AcquiredIds(c)
            /\ pc[c] = "done" => ret[c] = OwnOutcome(c)

\* Two calls of swarmui_generate_image, both past their first POST, holding
\* different session ids.
C17_Witness ==
    /\ \A c \in Calls : op[c] = "generate" /\ Len(GenRequests(c)) >= 1
    /\ GenRequests(1)[1].json["session_id"] # GenRequests(2)[1].json["session_id"]
    /\ pc[1] = "done" /\ pc[2] = "submitted"

====
